---- MODULE Spec2Model ----
(***************************************************************************)
(* Model of the directory (batch) mode of the `review` command of          *)
(* code-connoisseur (src/src/cli.js): change-set resolution (git           *)
(* discovery, recursive scan fallback, cap by recency), the per-file       *)
(* review loop and the report.                                             *)
(*                                                                         *)
(* Strings are modelled as sequences of atoms (short strings); "/" and "." *)
(* are atoms of their own, so that path.join, path.extname, toLowerCase    *)
(* and String.includes are computed on the text of a path.                 *)
(***************************************************************************)
EXTENDS Integers, Sequences, FiniteSets, TLC

VARIABLES pc, extensionsToInclude, absolutePath, gitStatus, changedFiles,
          scanned, candidates, stats, filesToReview, idx, reviews,
          attempted, skipped, report, exitCode, message, oldCode, call, result

\* The state of one codeAnalyzer.js call: the function with its arguments, and
\* what it returned.
analyzerVars == <<call, result>>

\* The state of the review command.
reviewVars == <<pc, extensionsToInclude, absolutePath, gitStatus, changedFiles,
                scanned, candidates, stats, filesToReview, idx, reviews,
                attempted, skipped, report, exitCode, message, oldCode>>

vars == <<reviewVars, analyzerVars>>

\* ---------------------------------------------------------------- bounds
\* Largest number of source files in the lib directory (and in git's report).
MaxLibFiles == 9
\* Modification times are 1..MaxMtime.
MaxMtime == 3
\* The modification time shared by the files nobody touched since checkout.
BaseMtime == 2
\* At most this many files have a modification time other than BaseMtime.
MaxTouched == 1
\* At most this many files of one batch fail to be reviewed.
MaxFailures == 1

\* Line numbers of lint messages and of changes are 1..MaxLine.
MaxLine == 3
\* The lint engine reports at most this many messages for a file.
MaxMessages == 2
\* The project graph has this many modules.
NumModules == 3
\* A diff has at most this many change records.
MaxChanges == 2
\* The number of pieces a text given to suggestEdgeCases is made of.
MaxPieces == 2

\* ------------------------------------------------------ program constants
MAX_FILES == 10

\* config.extensions (the default of --extensions), each an atom string.
DefaultExtensions == << <<"js">>, <<"ts">>, <<"jsx">>, <<"tsx">>, <<"py">> >>

\* config.excludeDirs
excludedDirs == << <<"node_modules">>, <<"dist">>, <<"build">>, <<".", "git">>,
                   <<"venv">>, <<"__pycache__">> >>

\* ------------------------------------------------------- string helpers
\* Array.prototype.includes
Includes(list, x) == \E k \in 1..Len(list) : list[k] = x

\* String.prototype.includes: t occurs in s as a contiguous run.
StrIncludes(s, t) ==
    \E k \in 0..(Len(s) - Len(t)) : SubSeq(s, k + 1, k + Len(t)) = t

\* String.prototype.toLowerCase on one atom, then on a string.
LowerAtom(a) ==
    CASE a = "JS" -> "js"
      [] a = "README" -> "readme"
      [] a = "Makefile" -> "makefile"
      [] OTHER -> a

ToLowerCase(s) == [k \in 1..Len(s) |-> LowerAtom(s[k])]

\* Index of the last atom of s equal to a, 0 when there is none.
LastIndexOf(s, a) ==
    IF \E k \in 1..Len(s) : s[k] = a
    THEN CHOOSE k \in 1..Len(s) : s[k] = a /\ \A j \in (k + 1)..Len(s) : s[j] # a
    ELSE 0

\* path.basename: the last portion of the path.
Basename(p) == SubSeq(p, LastIndexOf(p, "/") + 1, Len(p))

\* path.extname: from the last "." of the last portion to the end; empty when
\* there is no "." or the only "." is the first character of the basename.
Extname(p) ==
    LET b == Basename(p)
        d == LastIndexOf(b, ".")
    IN  IF d <= 1 THEN <<>> ELSE SubSeq(b, d, Len(b))

\* path.extname(file).toLowerCase().substring(1)
ExtOf(p) == LET e == ToLowerCase(Extname(p)) IN SubSeq(e, 2, Len(e))

\* path.join(dir, item) and path.resolve(cwd, relative)
PathJoin(dir, item) == dir \o <<"/">> \o item

\* Decimal digits of a natural number, as atoms.
DigitAtom == <<"0", "1", "2", "3", "4", "5", "6", "7", "8", "9">>

RECURSIVE Digits(_)
Digits(n) ==
    IF n < 10 THEN <<DigitAtom[n + 1]>>
    ELSE Digits(n \div 10) \o <<DigitAtom[(n % 10) + 1]>>

\* ------------------------------------------------------------ file system
\* process.cwd(), also the project root
Cwd == <<"/", "proj">>

\* The directories `review <path>` is run on.
TargetDirs == {Cwd, PathJoin(Cwd, <<"dist">>)}

\* lib/f1.js .. lib/fn.js, as names inside lib
LibItems(n) == [k \in 1..n |-> <<"f">> \o Digits(k) \o <<".", "js">>]

Directories ==
    {Cwd, PathJoin(Cwd, <<"dist">>), PathJoin(Cwd, <<"lib">>),
     PathJoin(Cwd, <<"re", "build">>), PathJoin(Cwd, <<"src">>),
     PathJoin(PathJoin(Cwd, <<"src">>), <<"deep">>)}

\* fs.statSync(p).isDirectory()
IsDirectory(p) == p \in Directories

\* fs.readdirSync(dir), with n source files in lib
ReadDir(dir, n) ==
    CASE dir = Cwd ->
           << <<".", "eslintrc">>, <<".", "git", "ignore">>, <<"Makefile">>,
              <<"README", ".", "md">>, <<"app", ".", "JS">>, <<"dist">>,
              <<"lib">>, <<"main", ".", "ts">>, <<"re", "build">>, <<"src">> >>
      [] dir = PathJoin(Cwd, <<"dist">>) ->
           << <<"notes", ".", "md">>, <<"out", ".", "js">> >>
      [] dir = PathJoin(Cwd, <<"lib">>) -> LibItems(n)
      [] dir = PathJoin(Cwd, <<"re", "build">>) -> << <<"keep", ".", "js">> >>
      [] dir = PathJoin(Cwd, <<"src">>) ->
           << <<"deep">>, <<"dist", "info", ".", "js">>, <<"util", ".", "py">> >>
      [] dir = PathJoin(PathJoin(Cwd, <<"src">>), <<"deep">>) ->
           << <<"x", ".", "tsx">> >>
      [] OTHER -> <<>>

\* A path git may report that is no longer on disk (a deleted file).
Exists(p) == Basename(p) # <<"gone", ".", "js">>

\* ------------------------------------------------------ change-set resolver
\* excluded.some(excl => itemPath.includes(excl))
IsExcluded(itemPath, excluded) ==
    \E e \in 1..Len(excluded) : StrIncludes(itemPath, excluded[e])

\* Variant: the extension is looked up in config.extensions, not in the list
\* given with --extensions.
ExtMatchesConfig(p, extensions) == Includes(DefaultExtensions, ExtOf(p))

\* extensions.includes(path.extname(p).toLowerCase().substring(1))
ExtMatches(p, extensions) == Includes(extensions, ExtOf(p))

\* getAllFiles(dir, extensions, excluded): the recursive scan
RECURSIVE getAllFiles(_, _, _, _)
getAllFiles(dir, extensions, excluded, n) ==
    LET items == ReadDir(dir, n)
        RECURSIVE Walk(_)
        Walk(k) ==
            IF k > Len(items) THEN <<>>
            ELSE LET itemPath == PathJoin(dir, items[k])
                     found ==
                         IF IsExcluded(itemPath, excluded) THEN <<>>
                         ELSE IF IsDirectory(itemPath)
                              THEN getAllFiles(itemPath, extensions, excluded, n)
                         ELSE IF ExtMatches(itemPath, extensions)
                              THEN <<itemPath>>
                         ELSE <<>>
                 IN  found \o Walk(k + 1)
    IN  Walk(1)

\* changedFiles.filter(ext in extensionsToInclude).map(path.resolve(cwd, file))
GitFilter(changed, extensions) ==
    LET kept == SelectSeq(changed, LAMBDA f : ExtMatches(f, extensions))
    IN  [k \in 1..Len(kept) |-> PathJoin(Cwd, kept[k])]

\* The lines `git diff --name-only HEAD -- <target>` may print, in git's order.
GitPool(target) ==
    IF target = Cwd
    THEN << <<"README", ".", "md">>, <<"dist", "/", "out", ".", "js">>,
            <<"gone", ".", "js">>, <<"app", ".", "JS">>, <<"main", ".", "ts">>,
            <<"src", "/", "util", ".", "py">> >>
         \o [k \in 1..MaxLibFiles |-> <<"lib", "/">> \o LibItems(MaxLibFiles)[k]]
    ELSE << <<"dist", "/", "notes", ".", "md">>, <<"dist", "/", "out", ".", "js">> >>

\* The windows of git's report: lines from..to of the pool (never empty).
GitReports(target) ==
    LET pool == GitPool(target)
    IN  {SubSeq(pool, from, to) : from \in 1..Len(pool), to \in 1..Len(pool)}
            \ {<<>>}

\* What fs.statSync(file).mtime may return for a list of n files.
MtimeChoices(n) ==
    LET touchedSets == {T \in SUBSET (1..n) : Cardinality(T) <= MaxTouched}
    IN  UNION {
          {[k \in 1..n |-> IF k \in T THEN v[k] ELSE BaseMtime] :
              v \in [T -> (1..MaxMtime) \ {BaseMtime}]} : T \in touchedSets}

\* Variant: a sort that is not stable; equally old elements come out in
\* reverse order.
SortByMtimeDescUnstable(st) ==
    LET before(k) ==
            Cardinality({j \in 1..Len(st) :
                \/ st[j].mtime > st[k].mtime
                \/ st[j].mtime = st[k].mtime /\ j > k})
    IN  [r \in 1..Len(st) |-> st[CHOOSE k \in 1..Len(st) : before(k) = r - 1]]

\* Variant: the comparator is a.mtime - b.mtime (oldest first).
SortByMtimeAsc(st) ==
    LET before(k) ==
            Cardinality({j \in 1..Len(st) :
                \/ st[j].mtime < st[k].mtime
                \/ st[j].mtime = st[k].mtime /\ j < k})
    IN  [r \in 1..Len(st) |-> st[CHOOSE k \in 1..Len(st) : before(k) = r - 1]]

\* .sort((a, b) => b.mtime - a.mtime): Array.prototype.sort is stable, so the
\* element at position k ends after every later-modified element and after
\* the equally old elements that preceded it.
SortByMtimeDesc(st) ==
    LET before(k) ==
            Cardinality({j \in 1..Len(st) :
                \/ st[j].mtime > st[k].mtime
                \/ st[j].mtime = st[k].mtime /\ j < k})
    IN  [r \in 1..Len(st) |-> st[CHOOSE k \in 1..Len(st) : before(k) = r - 1]]

\* Variant: the slice is missing.
CapByRecencyNoSlice(st) ==
    LET sorted == SortByMtimeDesc(st)
    IN  [k \in 1..Len(sorted) |-> sorted[k].path]

\* .sort(...).slice(0, MAX_FILES).map(file => file.path)
CapByRecency(st) ==
    LET sorted == SortByMtimeDesc(st)
        kept == SubSeq(sorted, 1, MAX_FILES)
    IN  [k \in 1..Len(kept) |-> kept[k].path]

\* Variant: the cap is engaged at MAX_FILES already.
CapEngagedAtMax(files) == Len(files) >= MAX_FILES

\* if (filesToReview.length > MAX_FILES)
CapEngaged(files) == Len(files) > MAX_FILES

\* ------------------------------------------------------------------- Init
\* No codeAnalyzer.js call is under way.
NoCall == [fn |-> "none"]

\* A source file `review <path>` is run on (single file mode).
TargetFile == PathJoin(Cwd, <<"app", ".", "JS">>)

Init ==
    /\ pc = "paths"
    /\ extensionsToInclude \in {DefaultExtensions, << <<"ts">>, <<"py">> >>}
    /\ absolutePath \in TargetDirs \cup {TargetFile}
    /\ gitStatus = "none"
    /\ changedFiles = <<>>
    /\ scanned = FALSE
    /\ candidates = <<>>
    /\ stats = <<>>
    /\ filesToReview = <<>>
    /\ idx = 0
    /\ reviews = <<>>
    /\ attempted = <<>>
    /\ skipped = {}
    /\ report = <<>>
    /\ exitCode = -1
    /\ message = ""
    /\ oldCode = "none"
    /\ call = NoCall
    /\ result = NoCall

\* What the review command leaves alone besides pc, exitCode and message.
reviewData == <<extensionsToInclude, absolutePath, gitStatus, changedFiles,
                scanned, candidates, stats, filesToReview, idx, reviews,
                attempted, skipped>>

\* ----------------------------------------------------------------- actions
\* cli.js 323-326: the target path is not on disk.
PathNotFound ==
    /\ pc = "paths"
    /\ pc' = "exited"
    /\ exitCode' = 1
    /\ message' = "Error: Path not found"
    /\ UNCHANGED <<analyzerVars, oldCode, reviewData, report>>

\* cli.js 328-331: the project root given with --root is not on disk.
RootNotFound ==
    /\ pc = "paths"
    /\ pc' = "exited"
    /\ exitCode' = 1
    /\ message' = "Error: Project root directory not found"
    /\ UNCHANGED <<analyzerVars, oldCode, reviewData, report>>

\* cli.js 323-359: both paths exist; directory mode or single file mode.
PathsOk ==
    /\ pc = "paths"
    /\ pc' = IF IsDirectory(absolutePath) THEN "discover" ELSE "single"
    /\ UNCHANGED <<analyzerVars, oldCode, reviewData, report, exitCode, message>>

\* ----------------------------------------------------------------- actions
\* Variant: the git branch falls through to the recursive scan.
GitChangedThenScan ==
    /\ pc = "discover"
    /\ \E rep \in GitReports(absolutePath) : changedFiles' = rep
    /\ \E n \in 0..MaxLibFiles :
          filesToReview' =
              getAllFiles(absolutePath, extensionsToInclude, excludedDirs, n)
    /\ gitStatus' = "ok"
    /\ scanned' = TRUE
    /\ candidates' = filesToReview'
    /\ pc' = "cap"
    /\ UNCHANGED <<analyzerVars, message, oldCode,
                   extensionsToInclude, absolutePath, stats, idx, reviews,
                   attempted, skipped, report, exitCode>>

\* cli.js 371-387: git reports changed files; they are filtered by extension.
GitChanged ==
    /\ pc = "discover"
    /\ \E rep \in GitReports(absolutePath) :
          /\ changedFiles' = rep
          /\ filesToReview' = GitFilter(rep, extensionsToInclude)
    /\ gitStatus' = "ok"
    /\ scanned' = FALSE
    /\ candidates' = filesToReview'
    /\ pc' = "cap"
    /\ UNCHANGED <<analyzerVars, message, oldCode,
                   extensionsToInclude, absolutePath, stats, idx, reviews,
                   attempted, skipped, report, exitCode>>

\* cli.js 388-416: git succeeds and prints nothing; recursive scan.
GitNoChanges ==
    /\ pc = "discover"
    /\ changedFiles' = <<>>
    /\ gitStatus' = "ok"
    /\ \E n \in 0..MaxLibFiles :
          filesToReview' =
              getAllFiles(absolutePath, extensionsToInclude, excludedDirs, n)
    /\ scanned' = TRUE
    /\ candidates' = filesToReview'
    /\ pc' = "cap"
    /\ UNCHANGED <<analyzerVars, message, oldCode,
                   extensionsToInclude, absolutePath, stats, idx, reviews,
                   attempted, skipped, report, exitCode>>

\* Variant: the failure of git reaches the outer catch.
GitFailsFatal ==
    /\ pc = "discover"
    /\ gitStatus' = "fail"
    /\ pc' = "crashed"
    /\ exitCode' = 1
    /\ message' = "Review failed: git"
    /\ UNCHANGED <<analyzerVars, oldCode,
                   extensionsToInclude, absolutePath, changedFiles, scanned,
                   candidates, stats, filesToReview, idx, reviews, attempted,
                   skipped, report>>

\* cli.js 417-445: execSync throws; the catch block scans recursively.
GitFails ==
    /\ pc = "discover"
    /\ changedFiles' = <<>>
    /\ gitStatus' = "fail"
    /\ \E n \in 0..MaxLibFiles :
          filesToReview' =
              getAllFiles(absolutePath, extensionsToInclude, excludedDirs, n)
    /\ scanned' = TRUE
    /\ candidates' = filesToReview'
    /\ pc' = "cap"
    /\ UNCHANGED <<analyzerVars, message, oldCode,
                   extensionsToInclude, absolutePath, stats, idx, reviews,
                   attempted, skipped, report, exitCode>>

\* cli.js 449: the cap is not engaged, the list is kept as discovered.
CapKeep ==
    /\ pc = "cap"
    /\ ~CapEngaged(filesToReview)
    /\ pc' = "check"
    /\ UNCHANGED <<analyzerVars, message, oldCode,
                   extensionsToInclude, absolutePath, gitStatus, changedFiles,
                   scanned, candidates, stats, filesToReview, idx, reviews,
                   attempted, skipped, report, exitCode>>

\* cli.js 449-458: more than MAX_FILES candidates; stat, sort, slice.
CapSort ==
    /\ pc = "cap"
    /\ CapEngaged(filesToReview)
    /\ \A k \in 1..Len(filesToReview) : Exists(filesToReview[k])
    /\ \E mt \in MtimeChoices(Len(filesToReview)) :
          stats' = [k \in 1..Len(filesToReview) |->
                       [path |-> filesToReview[k], mtime |-> mt[k]]]
    /\ filesToReview' = CapByRecency(stats')
    /\ pc' = "check"
    /\ UNCHANGED <<analyzerVars, message, oldCode,
                   extensionsToInclude, absolutePath, gitStatus, changedFiles,
                   scanned, candidates, idx, reviews, attempted, skipped,
                   report, exitCode>>

\* cli.js 454, 651-657: fs.statSync throws on a path that is not on disk; the
\* outer catch reports "Review failed" and exits with code 1.
CapStatFails ==
    /\ pc = "cap"
    /\ CapEngaged(filesToReview)
    /\ \E k \in 1..Len(filesToReview) : ~Exists(filesToReview[k])
    /\ pc' = "crashed"
    /\ exitCode' = 1
    /\ message' = "Review failed: stat"
    /\ UNCHANGED <<analyzerVars, oldCode,
                   extensionsToInclude, absolutePath, gitStatus, changedFiles,
                   scanned, candidates, stats, filesToReview, idx, reviews,
                   attempted, skipped, report>>

\* Variant: the empty list is not tested for and goes to the loop.
NoCandidatesIgnored ==
    /\ pc = "check"
    /\ Len(filesToReview) = 0
    /\ pc' = "loop"
    /\ idx' = 1
    /\ UNCHANGED <<analyzerVars, oldCode, message, extensionsToInclude,
                   absolutePath, gitStatus, changedFiles, scanned, candidates,
                   stats, filesToReview, reviews, attempted, skipped, report,
                   exitCode>>

\* cli.js 460-463: nothing to review; spinner.fail and process.exit(1).
NoCandidates ==
    /\ pc = "check"
    /\ Len(filesToReview) = 0
    /\ pc' = "exited"
    /\ exitCode' = 1
    /\ message' = "No matching files found to review"
    /\ UNCHANGED <<analyzerVars, oldCode,
                   extensionsToInclude, absolutePath, gitStatus, changedFiles,
                   scanned, candidates, stats, filesToReview, idx, reviews,
                   attempted, skipped, report>>

\* cli.js 465-469: the loop starts at the first file with no review yet. The
\* array of { path, mtime } of the cap statement is a temporary, gone by now.
StartLoop ==
    /\ pc = "check"
    /\ Len(filesToReview) # 0
    /\ pc' = "loop"
    /\ idx' = 1
    /\ reviews' = <<>>
    /\ stats' = <<>>
    /\ UNCHANGED <<analyzerVars, message, oldCode,
                   extensionsToInclude, absolutePath, gitStatus, changedFiles,
                   scanned, candidates, filesToReview, attempted,
                   skipped, report, exitCode>>

\* Variant: reviews.unshift({ filePath, review })
UnshiftReview(revs, filePath) == <<[filePath |-> filePath]>> \o revs

\* reviews.push({ filePath, review })
PushReview(revs, filePath) == Append(revs, [filePath |-> filePath])

\* Variant: the catch block leaves the loop.
AfterFailureBreak(i, n) == n + 1

\* The loop index after the catch block of one iteration (cli.js 502-505).
AfterFailure(i, n) == i + 1

\* What `git show HEAD:<file>` can do in the loop: with no usable repository
\* (git diff failed) it fails; otherwise it prints the old version or fails
\* (a file that HEAD does not have).
ShowOutcomes == IF gitStatus = "fail" THEN {FALSE} ELSE BOOLEAN

\* Variant: the failure of git show is not caught where it happens and
\* reaches the catch block of the iteration.
AfterGitShowThrows(shown) ==
    IF shown THEN [oldCode |-> "head", proceed |-> TRUE]
    ELSE [oldCode |-> "unavailable", proceed |-> FALSE]

\* cli.js 478-488: oldCode after the inner try/catch, and whether the
\* iteration goes on to agent.reviewCode.
AfterGitShow(shown) ==
    IF shown THEN [oldCode |-> "head", proceed |-> TRUE]
    ELSE [oldCode |-> "placeholder", proceed |-> TRUE]

\* cli.js 470-501: one iteration that reads the file, looks up its old
\* version, gets its review and pushes it.
ReviewOk ==
    /\ pc = "loop"
    /\ idx <= Len(filesToReview)
    /\ Exists(filesToReview[idx])
    /\ \E shown \in ShowOutcomes :
          LET git == AfterGitShow(shown)
          IN  /\ oldCode' = git.oldCode
              /\ IF git.proceed
                 THEN /\ reviews' = PushReview(reviews, filesToReview[idx])
                      /\ message' = "Reviewed"
                      /\ skipped' = skipped
                 ELSE /\ reviews' = reviews
                      /\ message' = "Failed to review: git show"
                      /\ skipped' = skipped \cup {idx}
    /\ attempted' = Append(attempted, filesToReview[idx])
    /\ idx' = idx + 1
    /\ UNCHANGED <<analyzerVars,
                   pc, extensionsToInclude, absolutePath, gitStatus,
                   changedFiles, scanned, candidates, stats, filesToReview,
                   report, exitCode>>

\* cli.js 474-504: one iteration in which fs.readFileSync throws (the file is
\* not on disk, oldCode is still '') or agent.reviewCode rejects; the catch
\* warns and the loop goes on.
ReviewFails ==
    /\ pc = "loop"
    /\ idx <= Len(filesToReview)
    /\ \/ /\ ~Exists(filesToReview[idx])
          /\ oldCode' = "empty"
          /\ message' = "Failed to review: read"
       \/ /\ Exists(filesToReview[idx])
          /\ Cardinality(skipped) < MaxFailures
          /\ \E shown \in ShowOutcomes : oldCode' = AfterGitShow(shown).oldCode
          /\ message' = "Failed to review: reviewCode"
    /\ attempted' = Append(attempted, filesToReview[idx])
    /\ skipped' = skipped \cup {idx}
    /\ idx' = AfterFailure(idx, Len(filesToReview))
    /\ UNCHANGED <<analyzerVars,
                   pc, extensionsToInclude, absolutePath, gitStatus,
                   changedFiles, scanned, candidates, stats, filesToReview,
                   reviews, report, exitCode>>

\* for (const { filePath, review } of reviews): the files the report lists
ReportOf(revs) == [k \in 1..Len(revs) |-> revs[k].filePath]

\* cli.js 507-527: the loop is over; every accumulated review is displayed.
DisplayReviews ==
    /\ pc = "loop"
    /\ idx > Len(filesToReview)
    /\ report' = ReportOf(reviews)
    /\ pc' = "done"
    /\ UNCHANGED <<analyzerVars, message, oldCode,
                   extensionsToInclude, absolutePath, gitStatus, changedFiles,
                   scanned, candidates, stats, filesToReview, idx, reviews,
                   attempted, skipped, exitCode>>

\* cli.js 337-346, 771-776: SIGINT is delivered while the command awaits
\* agent.reviewCode. The listener registered at module load runs first and
\* calls process.exit(0); handleInterrupt would do the same.
Interrupt ==
    /\ \/ pc = "loop" /\ idx <= Len(filesToReview)
       \/ pc = "single_review"
    /\ pc' = "exited"
    /\ exitCode' = 0
    /\ message' = "Process interrupted by user. Shutting down gracefully..."
    /\ UNCHANGED <<analyzerVars, oldCode, reviewData, report>>

\* cli.js 569, 651-657: fs.readFileSync throws on the target file; the outer
\* catch reports "Review failed" and exits with code 1.
SingleReadFails ==
    /\ pc = "single"
    /\ pc' = "crashed"
    /\ exitCode' = 1
    /\ message' = "Review failed: read"
    /\ UNCHANGED <<analyzerVars, oldCode, reviewData, report>>

\* cli.js 572-575: --old names a file that exists; it is the old version.
SingleOldFromFile ==
    /\ pc = "single"
    /\ pc' = "single_review"
    /\ oldCode' = "file"
    /\ UNCHANGED <<analyzerVars, reviewData, report, exitCode, message>>

\* cli.js 576-579: --old names a file that is not on disk.
SingleOldMissing ==
    /\ pc = "single"
    /\ pc' = "exited"
    /\ exitCode' = 1
    /\ message' = "Previous version not found"
    /\ UNCHANGED <<analyzerVars, oldCode, reviewData, report>>

\* cli.js 580-587: no --old; `git show HEAD:<file>` gives the old version.
SingleOldFromGit ==
    /\ pc = "single"
    /\ pc' = "single_review"
    /\ oldCode' = "head"
    /\ UNCHANGED <<analyzerVars, reviewData, report, exitCode, message>>

\* cli.js 588-591: no --old and `git show` fails; spinner.fail and
\* process.exit(1).
SingleGitShowFails ==
    /\ pc = "single"
    /\ pc' = "exited"
    /\ exitCode' = 1
    /\ message' = "Could not get previous version from git"
    /\ oldCode' = "unavailable"
    /\ UNCHANGED <<analyzerVars, reviewData, report>>

\* cli.js 595-606: the review of the target file is displayed.
SingleReviewOk ==
    /\ pc = "single_review"
    /\ pc' = "single_done"
    /\ report' = <<absolutePath>>
    /\ UNCHANGED <<analyzerVars, oldCode, reviewData, exitCode, message>>

\* cli.js 595, 651-657: agent.reviewCode rejects; the outer catch reports
\* "Review failed" and exits with code 1.
SingleReviewFails ==
    /\ pc = "single_review"
    /\ pc' = "crashed"
    /\ exitCode' = 1
    /\ message' = "Review failed: reviewCode"
    /\ UNCHANGED <<analyzerVars, oldCode, reviewData, report>>

Next ==
    \/ PathNotFound
    \/ RootNotFound
    \/ PathsOk
    \/ GitChanged
    \/ GitNoChanges
    \/ GitFails
    \/ CapKeep
    \/ CapSort
    \/ CapStatFails
    \/ NoCandidates
    \/ StartLoop
    \/ ReviewOk
    \/ ReviewFails
    \/ DisplayReviews
    \/ Interrupt
    \/ SingleReadFails
    \/ SingleOldFromFile
    \/ SingleOldMissing
    \/ SingleOldFromGit
    \/ SingleGitShowFails
    \/ SingleReviewOk
    \/ SingleReviewFails

Spec == Init /\ [][Next]_vars

\* The change set has been resolved: filesToReview is Selected.
Resolved == pc \in {"check", "loop", "done", "exited"}

\* ------------------------------------------------------------------ claims
\* C1: once the change set is resolved, Selected (filesToReview) has at most
\* MAX_FILES = 10 entries, whatever discovery produced.
Thm_C1 == Resolved => Len(filesToReview) <= MAX_FILES

\* More than 10 candidates were discovered and 10 of them were selected.
Wit_C1 ==
    /\ Resolved
    /\ Len(candidates) > MAX_FILES
    /\ Len(filesToReview) = MAX_FILES

\* C2: when discovery yields 10 or fewer candidates, Selected is the candidate
\* sequence itself: same elements in discovery order.
Thm_C2 ==
    (Resolved /\ Len(candidates) <= MAX_FILES) => filesToReview = candidates

\* Exactly 10 candidates, of several kinds, were discovered and all kept.
Wit_C2 ==
    /\ Resolved
    /\ Len(candidates) = MAX_FILES
    /\ filesToReview = candidates
    /\ pc = "loop"

\* C3: when the git command fails, resolution runs the recursive scan (what
\* enters the cap is a scan of the target directory) and the run never ends
\* in the "Review failed" crash; a non-zero exit can only come from an empty
\* change set.
Thm_C3 ==
    gitStatus = "fail" =>
        /\ scanned
        /\ pc # "crashed"
        /\ exitCode = 1 => (pc = "exited" /\ filesToReview = <<>>)
        /\ pc = "cap" =>
              \E n \in 0..MaxLibFiles :
                 candidates =
                    getAllFiles(absolutePath, extensionsToInclude, excludedDirs, n)

\* Git failed and the batch went on to report reviewed files.
Wit_C3 ==
    /\ gitStatus = "fail"
    /\ pc = "done"
    /\ Len(report) > 0

\* C4 (as claimed): whenever git discovery yields no matching path, the
\* recursive scan is entered, also when git reported files of other
\* extensions only.
Claim_C4 ==
    (gitStatus = "ok" /\ GitFilter(changedFiles, extensionsToInclude) = <<>>)
        => scanned

\* The extensions the claims speak of: lower-cased, dot stripped, in the list.
AllowedExt(p) ==
    \E k \in 1..Len(extensionsToInclude) : extensionsToInclude[k] = ExtOf(p)

\* C5: on every resolution path, no file whose extension (lower-cased, dot
\* stripped) is outside the allow-list is in Selected, as it leaves the cap.
Thm_C5 ==
    pc = "check" =>
        \A k \in 1..Len(filesToReview) : AllowedExt(filesToReview[k])

\* Git reported files of which some were dropped for their extension, and a
\* file with an upper-case extension was kept.
Wit_C5 ==
    /\ pc = "check"
    /\ gitStatus = "ok"
    /\ ~scanned
    /\ Len(filesToReview) > 0
    /\ Len(filesToReview) < Len(changedFiles)
    /\ \E k \in 1..Len(filesToReview) :
          Extname(filesToReview[k]) # ToLowerCase(Extname(filesToReview[k]))

\* C6 (as claimed): on every resolution path, no file whose full path
\* contains an exclusion token as a substring is in Selected.
Claim_C6 ==
    Resolved =>
        \A k \in 1..Len(filesToReview) :
            \A e \in 1..Len(excludedDirs) :
                ~StrIncludes(filesToReview[k], excludedDirs[e])

\* The modification time fs.statSync returned for a candidate.
MtimeOf(p) == stats[CHOOSE k \in 1..Len(stats) : stats[k].path = p].mtime

\* C7: with more than 10 candidates, Selected holds 10 of the candidates,
\* ordered by non-increasing modification time, and no candidate left out is
\* more recent than a selected one.
Thm_C7 ==
    (pc = "check" /\ Len(candidates) > MAX_FILES) =>
        /\ Len(filesToReview) = MAX_FILES
        /\ \A k \in 1..Len(filesToReview) :
              \E c \in 1..Len(candidates) : candidates[c] = filesToReview[k]
        /\ \A j, k \in 1..Len(filesToReview) :
              j < k => /\ filesToReview[j] # filesToReview[k]
                       /\ MtimeOf(filesToReview[j]) >= MtimeOf(filesToReview[k])
        /\ \A c \in 1..Len(candidates) :
              (\A k \in 1..Len(filesToReview) : filesToReview[k] # candidates[c])
                 => \A k \in 1..Len(filesToReview) :
                       MtimeOf(filesToReview[k]) >= MtimeOf(candidates[c])

\* The last of more than 10 candidates is the most recent one and comes first.
Wit_C7 ==
    /\ pc = "check"
    /\ Len(candidates) > MAX_FILES
    /\ filesToReview[1] = candidates[Len(candidates)]
    /\ MtimeOf(filesToReview[1]) > BaseMtime

\* The reported paths with an allowed extension, resolved against the working
\* directory, in report order.
ReportedMatches ==
    LET m == SelectSeq(changedFiles, AllowedExt)
    IN  [k \in 1..Len(m) |-> Cwd \o <<"/">> \o m[k]]

\* C8 (as claimed): when git succeeds and reports at least one matching file,
\* Selected, as it leaves the cap, is exactly the reported matching paths in
\* report order and the recursive scan was not run.
Claim_C8 ==
    (pc = "check" /\ gitStatus = "ok") =>
        LET matches == ReportedMatches
        IN  Len(matches) > 0 => (filesToReview = matches /\ ~scanned)

\* C8 (amended): the same, for at most 10 matching paths; with more than 10
\* the scan is still not run and Selected holds reported matching paths only.
Thm_C8 ==
    (pc = "check" /\ gitStatus = "ok") =>
        LET matches == ReportedMatches
        IN  Len(matches) > 0 =>
              /\ ~scanned
              /\ Len(matches) <= MAX_FILES => filesToReview = matches
              /\ \A k \in 1..Len(filesToReview) :
                    \E m \in 1..Len(matches) : filesToReview[k] = matches[m]

\* Git reported three matching files among others; the directory holds more.
Wit_C8 ==
    /\ pc = "check"
    /\ gitStatus = "ok"
    /\ absolutePath = Cwd
    /\ Len(changedFiles) > 3
    /\ Len(ReportedMatches) = 3
    /\ filesToReview = ReportedMatches

\* C9: the loop attempts the files of Selected one by one in Selected order,
\* each once; a failed file is skipped and the loop goes on, so that at the
\* end every file of Selected has been attempted.
Thm_C9 ==
    pc \in {"loop", "done"} =>
        /\ idx \in 1..(Len(filesToReview) + 1)
        /\ attempted = SubSeq(filesToReview, 1, idx - 1)
        /\ skipped \subseteq 1..(idx - 1)
        /\ pc = "done" => attempted = filesToReview

\* A file failed, and a later file of the batch was reviewed.
Wit_C9 ==
    /\ pc = "done"
    /\ \E f \in skipped :
          \E k \in (f + 1)..Len(filesToReview) : k \notin skipped
    /\ attempted = filesToReview

\* The files of Selected at the positions that did not fail, in order.
Succeeded ==
    LET ix == SelectSeq([k \in 1..Len(filesToReview) |-> k],
                        LAMBDA k : k \notin skipped)
    IN  [j \in 1..Len(ix) |-> filesToReview[ix[j]]]

\* C10: the report lists exactly the files whose review succeeded, in the
\* order of Selected, each once.
Thm_C10 ==
    pc = "done" =>
        /\ report = Succeeded
        /\ \A j, k \in 1..Len(report) : j # k => report[j] # report[k]

\* A file in the middle of the batch failed; the report has the others.
Wit_C10 ==
    /\ pc = "done"
    /\ \E f \in skipped : 1 \notin skipped /\ 1 < f /\ f < Len(filesToReview)
    /\ Len(report) >= 2
    /\ Len(report) < Len(filesToReview)

\* C11: when change-set resolution yields no file, no per-file review is
\* started, the message about the absence of reviewable files is shown and
\* the command exits with code 1 through process.exit, not through a crash.
Thm_C11 ==
    (/\ gitStatus # "none"
     /\ pc \in {"loop", "done", "exited", "crashed"}
     /\ Len(filesToReview) = 0) =>
        /\ pc = "exited"
        /\ exitCode = 1
        /\ message = "No matching files found to review"
        /\ idx = 0
        /\ attempted = <<>>
        /\ reviews = <<>>
        /\ report = <<>>

\* The scan of a directory found nothing to review and the command exited.
Wit_C11 ==
    /\ pc = "exited"
    /\ scanned
    /\ Len(candidates) = 0
    /\ exitCode = 1

\* C12 (as claimed): after an interrupt during batch review no new file is
\* started and the reviews completed before it reach the report.
Claim_C12 ==
    exitCode = 0 =>
        \A k \in 1..Len(reviews) :
            \E j \in 1..Len(report) : report[j] = reviews[k].filePath

\* C13 (as claimed): a review ends with exit code 1 only for a missing or
\* unreadable path in single file review or an empty change set in batch
\* review; a failure of git to give the previous version of the target file
\* does not end the review.
Claim_C13 ==
    exitCode = 1 =>
        \/ message \in {"Error: Path not found",
                        "Error: Project root directory not found",
                        "Previous version not found",
                        "Review failed: read"}
        \/ /\ IsDirectory(absolutePath)
           /\ message = "No matching files found to review"

\* ======================================================== codeAnalyzer.js
\* The analyzers are functions of their arguments and of what the lint
\* engine, madge and the file system answer; one call of one of them is a
\* step from NoCall to the state holding the call and its return value.

\* What a function hands back: a value, or an exception that leaves it.
Returned(v) == [threw |-> FALSE, value |-> v]
Thrown(e) == [threw |-> TRUE, error |-> e]

\* ------------------------------------------------------- runStaticAnalysis
\* The messages ESLint may report for a file.
LintMessages ==
    [message : {"Unexpected var", "Parsing error"}, severity : {1, 2},
     line : 1..MaxLine, column : {1}, ruleId : {"no-var", "null"}]

RECURSIVE SeqsUpTo(_, _)
\* The sequences over S of length at most n.
SeqsUpTo(S, n) ==
    IF n = 0 THEN {<<>>}
    ELSE LET shorter == SeqsUpTo(S, n - 1)
         IN  shorter \cup {Append(q, x) : q \in {r \in shorter : Len(r) = n - 1},
                                          x \in S}

\* What `new ESLint()` and eslint.lintText do: either throws, or lintText
\* resolves to an array with no result or with the result of the file.
LintEngines ==
    {[kind |-> k, error |-> e] :
        k \in {"constructThrows", "lintThrows"},
        e \in {"No ESLint configuration found", "Parsing failed"}}
    \cup {[kind |-> "results", results |-> <<>>]}
    \cup {[kind |-> "results", results |-> <<[messages |-> m]>>] :
            m \in SeqsUpTo(LintMessages, MaxMessages)}

\* Variant: the issues come out last message first.
FormatIssuesReversed(messages) ==
    [k \in 1..Len(messages) |->
        LET m == messages[Len(messages) + 1 - k]
        IN  [message |-> m.message, severity |-> m.severity, line |-> m.line,
             column |-> m.column, ruleId |-> m.ruleId]]

\* results[0].messages.map(message => ({ message, severity, line, column,
\* ruleId }))
FormatIssues(messages) ==
    [k \in 1..Len(messages) |->
        LET m == messages[k]
        IN  [message |-> m.message, severity |-> m.severity, line |-> m.line,
             column |-> m.column, ruleId |-> m.ruleId]]

\* Variant: the catch block returns no issue.
runStaticAnalysisSilent(engine) ==
    IF engine.kind # "results" THEN Returned(<<>>)
    ELSE IF Len(engine.results) = 0 THEN Returned(<<>>)
    ELSE Returned(FormatIssues(engine.results[1].messages))

\* runStaticAnalysis(code, filePath), codeAnalyzer.js 12-45
runStaticAnalysis(engine) ==
    IF engine.kind # "results"
    THEN Returned(<<[message |-> <<"Static analysis currently unavailable: ",
                                   engine.error>>,
                     severity |-> 1, line |-> 1, column |-> 1]>>)
    ELSE IF Len(engine.results) = 0 THEN Returned(<<>>)
    ELSE Returned(FormatIssues(engine.results[1].messages))

\* ----------------------------------------------------- analyzeDependencies
\* The modules of the project, as paths relative to the project root.
ModuleId(k) == <<"m">> \o Digits(k) \o <<".", "js">>
Modules == {ModuleId(k) : k \in 1..NumModules}

\* The import graphs of the project: tree[m] is the set of modules m imports.
ImportGraphs ==
    {t \in [Modules -> SUBSET Modules] : \A m \in Modules : m \notin t[m]}

\* The methods of the object madge() resolves to (madge 8: there is no
\* method named dependents).
MadgeMethods ==
    {"obj", "warnings", "circular", "circularGraph", "depends", "orphans",
     "leaves", "dot", "image", "svg"}

\* The modules in the order of Object.keys(tree).
ModuleOrder == [k \in 1..NumModules |-> ModuleId(k)]

\* madge's graph.depends(id): the modules whose imports contain id.
MadgeDepends(tree, id) == SelectSeq(ModuleOrder, LAMBDA m : id \in tree[m])

\* path.relative(projectRoot, filePath) for a file under the project root
PathRelative(root, p) == SubSeq(p, Len(root) + 2, Len(p))

\* dependencies.map(dep => path.join(projectRoot, dep))
JoinAll(root, deps) == [k \in 1..Len(deps) |-> PathJoin(root, deps[k])]

NoDependencies == [dependencies |-> <<>>, dependents |-> <<>>]

\* Variant: each lookup has a try block of its own.
analyzeDependenciesPartial(madge, filePath, projectRoot) ==
    IF madge.kind = "throws" THEN Returned(NoDependencies)
    ELSE LET relativePath == PathRelative(projectRoot, filePath)
             dependencies ==
                 IF "depends" \in MadgeMethods
                 THEN MadgeDepends(madge.tree, relativePath) ELSE <<>>
             dependents ==
                 IF "dependents" \in MadgeMethods
                 THEN MadgeDepends(madge.tree, relativePath) ELSE <<>>
         IN  Returned([dependencies |-> JoinAll(projectRoot, dependencies),
                       dependents |-> JoinAll(projectRoot, dependents)])

\* analyzeDependencies(filePath, projectRoot), codeAnalyzer.js 53-83: calling
\* a method the graph does not have is a TypeError, caught like a failure of
\* madge itself.
analyzeDependencies(madge, filePath, projectRoot) ==
    IF madge.kind = "throws" THEN Returned(NoDependencies)
    ELSE IF "depends" \notin MadgeMethods \/ "dependents" \notin MadgeMethods
    THEN Returned(NoDependencies)
    ELSE LET relativePath == PathRelative(projectRoot, filePath)
             dependencies == MadgeDepends(madge.tree, relativePath)
             dependents == MadgeDepends(madge.tree, relativePath)
         IN  Returned([dependencies |-> JoinAll(projectRoot, dependencies),
                       dependents |-> JoinAll(projectRoot, dependents)])

\* ---------------------------------------------------- estimateTestCoverage
\* coverage: testFilesFound.length > 0 ? 0.6 : 0, in tenths
PresumedCoverageTenths == 6

\* path.dirname
Dirname(p) == SubSeq(p, 1, LastIndexOf(p, "/") - 1)

\* path.basename(filePath, path.extname(filePath))
BasenameNoExt(p) ==
    LET b == Basename(p) IN SubSeq(b, 1, Len(b) - Len(Extname(p)))

testDirs ==
    << <<"__tests__">>, <<"tests">>, <<"test">>, <<"spec">>, <<"__tests__">> >>

testFilePatterns(basename) ==
    << basename \o <<".", "test", ".", "js">>,
       basename \o <<".", "spec", ".", "js">>,
       <<"test", "-">> \o basename \o <<".", "js">>,
       basename \o <<"-", "test", ".", "js">> >>

\* The paths fs.existsSync is asked about, in the order of the two loops:
\* the file's own directory, then each test directory under process.cwd().
SearchedTestPaths(filePath) ==
    LET patterns == testFilePatterns(BasenameNoExt(filePath))
        np == Len(patterns)
        own == [k \in 1..np |-> PathJoin(Dirname(filePath), patterns[k])]
        inDirs == [k \in 1..(Len(testDirs) * np) |->
                      PathJoin(PathJoin(Cwd, testDirs[((k - 1) \div np) + 1]),
                               patterns[((k - 1) % np) + 1])]
    IN  own \o inDirs

\* testFilesFound after both loops
TestFilesFound(filePath, onDisk) ==
    SelectSeq(SearchedTestPaths(filePath), LAMBDA t : t \in onDisk)

\* Variant: end is start + lineCount.
RangeOfPastEnd(c) ==
    [start |-> c.newLineNumber, end |-> c.newLineNumber + c.lineCount]

\* c => ({ start: c.newLineNumber, end: c.newLineNumber + c.lineCount - 1 })
RangeOf(c) ==
    [start |-> c.newLineNumber, end |-> c.newLineNumber + c.lineCount - 1]

\* Variant: a diff that adds more than two lines is taken for a rewrite and
\* gets no untested range.
UntestedRangesSmallOnly(items) ==
    LET added == SelectSeq(items, LAMBDA c : c.added)
        RECURSIVE Total(_)
        Total(k) == IF k = 0 THEN 0 ELSE added[k].lineCount + Total(k - 1)
    IN  IF Total(Len(added)) > 2 THEN <<>>
        ELSE [k \in 1..Len(added) |-> RangeOf(added[k])]

\* changes.filter(c => c.added).map(c => ({ start, end }))
UntestedRanges(items) ==
    LET added == SelectSeq(items, LAMBDA c : c.added)
    IN  [k \in 1..Len(added) |-> RangeOf(added[k])]

\* Variant: the estimate grows with the number of test files.
PresumedCoverageByCount(found) ==
    IF Len(found) = 0 THEN 0
    ELSE IF Len(found) = 1 THEN PresumedCoverageTenths
    ELSE PresumedCoverageTenths + 2

\* testFilesFound.length > 0 ? 0.6 : 0
PresumedCoverage(found) ==
    IF Len(found) > 0 THEN PresumedCoverageTenths ELSE 0

\* Variant: the catch block keeps the ranges it can still compute.
CoverageErrorWithRanges(error, changes) ==
    [coverage |-> 0,
     untested |-> IF changes.isArray THEN UntestedRanges(changes.items)
                  ELSE <<>>,
     suggestion |-> <<"Error analyzing test coverage: ", error>>]

\* The object the catch block returns (codeAnalyzer.js 160-166).
CoverageError(error, changes) ==
    [coverage |-> 0, untested |-> <<>>,
     suggestion |-> <<"Error analyzing test coverage: ", error>>]

\* estimateTestCoverage(filePath, changes), codeAnalyzer.js 91-168. filePath
\* is [isString, text] and changes is [isArray, items]: path.extname throws
\* on a non-string and changes.filter on a non-array.
estimateTestCoverage(filePath, changes, onDisk) ==
    IF ~filePath.isString
    THEN Returned(CoverageError(
             "The \"path\" argument must be of type string", changes))
    ELSE IF ~changes.isArray
    THEN Returned(CoverageError(
             "Cannot read properties of undefined (reading 'filter')", changes))
    ELSE LET basename == BasenameNoExt(filePath.text)
             testFilesFound == TestFilesFound(filePath.text, onDisk)
         IN  IF Len(testFilesFound) = 0
             THEN Returned(
                    [coverage |-> 0,
                     untested |-> UntestedRanges(changes.items),
                     suggestion |-> <<"No test files found for ">> \o basename
                                    \o <<". Consider creating tests.">>])
             ELSE Returned(
                    [coverage |-> PresumedCoverage(testFilesFound),
                     testFiles |-> testFilesFound,
                     untested |-> UntestedRanges(changes.items),
                     suggestion |-> Digits(Len(testFilesFound)) \o
                        <<" test file(s) found. Verify test coverage for the changes.">>])

\* The change records of a diff: added, removed or unchanged runs of lines
\* inside a text of MaxLine lines.
ChangeRecords ==
    {c \in [added : BOOLEAN, removed : BOOLEAN, newLineNumber : 1..MaxLine,
            lineCount : 1..MaxLine] :
        /\ ~(c.added /\ c.removed)
        /\ c.newLineNumber + c.lineCount - 1 <= MaxLine}

\* The source file whose coverage is estimated.
CoveredFile == PathJoin(PathJoin(Cwd, <<"src">>), <<"util", ".", "py">>)

\* What may be on disk around it: nothing, one test file next to the source
\* file, one in __tests__ (a directory testDirs names twice), both, a file
\* that is no test, or a Python test file next to the source file.
TestDisks ==
    LET own == PathJoin(Dirname(CoveredFile), <<"util", ".", "test", ".", "js">>)
        inTests == PathJoin(PathJoin(Cwd, <<"__tests__">>),
                            <<"util", ".", "spec", ".", "js">>)
        other == PathJoin(Cwd, <<"README", ".", "md">>)
        ownPy == PathJoin(Dirname(CoveredFile), <<"util", ".", "test", ".", "py">>)
    IN  {{}, {other}, {own}, {inTests}, {own, inTests}, {ownPy}}

\* -------------------------------------------------------- suggestEdgeCases
\* String.prototype.includes on a text: needle occurs at some position.
CodeIncludes(code, needle) ==
    \E i \in 1..(Len(code) - Len(needle) + 1) :
        SubSeq(code, i, i + Len(needle) - 1) = needle

\* code.includes(n1) || code.includes(n2) || ...
IncludesAny(code, needles) == \E n \in needles : CodeIncludes(code, n)

\* The conditions of the five if statements (codeAnalyzer.js 178-205).
UsesArrays(code) ==
    IncludesAny(code, {".map(", ".filter(", ".forEach(", ".reduce(", ".some(",
                       ".every("})
UsesStrings(code) ==
    IncludesAny(code, {".substring(", ".substr(", ".slice(", ".indexOf(",
                       ".split("})
ChecksNull(code) ==
    IncludesAny(code, {"=== null", "!== null", "=== undefined",
                       "!== undefined"})
UsesArithmetic(code) == IncludesAny(code, {"+", "-", "*", "/"})
UsesAsync(code) ==
    IncludesAny(code, {"async", "await", ".then(", ".catch(", "Promise"})

\* !code.includes('try') || !code.includes('catch')
LacksTryOrCatch(code) == ~CodeIncludes(code, "try") \/ ~CodeIncludes(code, "catch")

ArraySuggestions ==
    <<"Test with an empty array", "Test with a very large array (performance)">>
StringSuggestions ==
    <<"Test with an empty string", "Test with special characters">>
NullSuggestions == <<"Test with null and undefined values">>
NumberSuggestions ==
    <<"Test with zero and negative values", "Test with very large numbers">>
AsyncSuggestion == "Test error handling in async operations"
TryCatchSuggestion == "Add try/catch blocks around async operations"

\* The pushes of the async if statement (codeAnalyzer.js 204-213).
AsyncSuggestions(code) ==
    IF ~UsesAsync(code) THEN <<>>
    ELSE IF LacksTryOrCatch(code) THEN <<AsyncSuggestion, TryCatchSuggestion>>
    ELSE <<AsyncSuggestion>>

\* Variant: the numeric check comes before the null check.
suggestEdgeCasesNumbersFirst(code) ==
    (IF UsesArrays(code) THEN ArraySuggestions ELSE <<>>)
    \o (IF UsesStrings(code) THEN StringSuggestions ELSE <<>>)
    \o (IF UsesArithmetic(code) THEN NumberSuggestions ELSE <<>>)
    \o (IF ~ChecksNull(code) THEN NullSuggestions ELSE <<>>)
    \o AsyncSuggestions(code)

\* suggestEdgeCases(code), codeAnalyzer.js 174-216
suggestEdgeCases(code) ==
    (IF UsesArrays(code) THEN ArraySuggestions ELSE <<>>)
    \o (IF UsesStrings(code) THEN StringSuggestions ELSE <<>>)
    \o (IF ~ChecksNull(code) THEN NullSuggestions ELSE <<>>)
    \o (IF UsesArithmetic(code) THEN NumberSuggestions ELSE <<>>)
    \o AsyncSuggestions(code)

\* Pieces of source text; tryBlock tells whether the piece is a try statement
\* with a catch clause.
CodePieces ==
    {[text |-> "function f(){return 1;}\n", tryBlock |-> FALSE],
     [text |-> "xs.map(g);", tryBlock |-> FALSE],
     [text |-> "s.split('-');", tryBlock |-> FALSE],
     [text |-> "if (x === null) {}", tryBlock |-> FALSE],
     [text |-> "n = a - b;", tryBlock |-> FALSE],
     [text |-> "await xs.map(g);", tryBlock |-> FALSE],
     [text |-> "try { q(); } catch (e) {}", tryBlock |-> TRUE],
     [text |-> "retry(p).catch(h);", tryBlock |-> FALSE]}

RECURSIVE TextOf(_)
\* The text made of the pieces, one after the other.
TextOf(pieces) ==
    IF pieces = <<>> THEN ""
    ELSE pieces[1].text \o TextOf(Tail(pieces))

\* ------------------------------------------------------- analyzer actions
\* Nothing of the review command runs while an analyzer is looked at alone.
InitAnalyzers ==
    /\ pc = "analyzers"
    /\ extensionsToInclude = DefaultExtensions
    /\ absolutePath = TargetFile
    /\ gitStatus = "none"
    /\ changedFiles = <<>>
    /\ scanned = FALSE
    /\ candidates = <<>>
    /\ stats = <<>>
    /\ filesToReview = <<>>
    /\ idx = 0
    /\ reviews = <<>>
    /\ attempted = <<>>
    /\ skipped = {}
    /\ report = <<>>
    /\ exitCode = -1
    /\ message = ""
    /\ oldCode = "none"
    /\ call = NoCall
    /\ result = NoCall

\* codeAnalyzer.js 12-45: one call of runStaticAnalysis
LintCall ==
    /\ call = NoCall
    /\ \E engine \in LintEngines :
          /\ call' = [fn |-> "runStaticAnalysis", engine |-> engine]
          /\ result' = runStaticAnalysis(engine)
    /\ UNCHANGED reviewVars

\* codeAnalyzer.js 53-83: one call of analyzeDependencies
DepsCall ==
    /\ call = NoCall
    /\ \E madge \in {[kind |-> "throws"]}
                      \cup {[kind |-> "graph", tree |-> t] : t \in ImportGraphs},
          target \in Modules :
          /\ call' = [fn |-> "analyzeDependencies", madge |-> madge,
                      filePath |-> PathJoin(Cwd, target), projectRoot |-> Cwd]
          /\ result' = analyzeDependencies(madge, PathJoin(Cwd, target), Cwd)
    /\ UNCHANGED reviewVars

\* The arguments estimateTestCoverage is called with.
CoverageArgs ==
    {[filePath |-> [isString |-> TRUE, text |-> CoveredFile],
      changes |-> [isArray |-> TRUE, items |-> items]] :
        items \in SeqsUpTo(ChangeRecords, MaxChanges)}
    \cup {[filePath |-> [isString |-> FALSE, text |-> <<>>],
           changes |-> [isArray |-> TRUE, items |-> <<c>>]] :
             c \in ChangeRecords}
    \cup {[filePath |-> [isString |-> TRUE, text |-> CoveredFile],
           changes |-> [isArray |-> FALSE, items |-> <<>>]]}

\* codeAnalyzer.js 91-168: one call of estimateTestCoverage
CoverageCall ==
    /\ call = NoCall
    /\ \E args \in CoverageArgs, onDisk \in TestDisks :
          /\ call' = [fn |-> "estimateTestCoverage", filePath |-> args.filePath,
                      changes |-> args.changes, onDisk |-> onDisk,
                      priorUntested |-> -1]
          /\ result' = estimateTestCoverage(args.filePath, args.changes, onDisk)
    /\ UNCHANGED reviewVars

\* s with x put in front of its element k (at the end for k = Len(s) + 1)
InsertAt(s, k, x) == SubSeq(s, 1, k - 1) \o <<x>> \o SubSeq(s, k, Len(s))

\* codeAnalyzer.js 91-168: the same file is estimated again after one more
\* added change record entered its diff; the earlier number of untested
\* ranges is kept for comparison.
CoverageAddChange ==
    /\ call.fn = "estimateTestCoverage"
    /\ call.filePath.isString
    /\ call.changes.isArray
    /\ Len(call.changes.items) < MaxChanges
    /\ \E c \in {r \in ChangeRecords : r.added},
          k \in 1..(Len(call.changes.items) + 1) :
          LET changes == [isArray |-> TRUE,
                          items |-> InsertAt(call.changes.items, k, c)]
          IN  /\ call' = [call EXCEPT !.changes = changes,
                                      !.priorUntested = Len(result.value.untested)]
              /\ result' = estimateTestCoverage(call.filePath, changes,
                                                call.onDisk)
    /\ UNCHANGED reviewVars

\* codeAnalyzer.js 174-216: one call of suggestEdgeCases
EdgeCasesCall ==
    /\ call = NoCall
    /\ \E pieces \in SeqsUpTo(CodePieces, MaxPieces) :
          /\ call' = [fn |-> "suggestEdgeCases", code |-> TextOf(pieces),
                      pieces |-> pieces]
          /\ result' = Returned(suggestEdgeCases(TextOf(pieces)))
    /\ UNCHANGED reviewVars

NextAnalyzers ==
    \/ LintCall
    \/ DepsCall
    \/ CoverageCall
    \/ CoverageAddChange
    \/ EdgeCasesCall

SpecAnalyzers == InitAnalyzers /\ [][NextAnalyzers]_vars

\* ------------------------------------------------------------ claims C14-C20
LintFailed == call.fn = "runStaticAnalysis" /\ call.engine.kind # "results"

\* C14: when constructing the lint engine or lintText fails, runStaticAnalysis
\* does not throw and returns exactly one issue: severity 1 (warning), line 1,
\* column 1, with a message saying that analysis is unavailable.
Thm_C14 ==
    LintFailed =>
        /\ ~result.threw
        /\ Len(result.value) = 1
        /\ result.value[1].severity = 1
        /\ result.value[1].line = 1
        /\ result.value[1].column = 1
        /\ result.value[1].message[1] = "Static analysis currently unavailable: "
        /\ result.value[1].message[2] = call.engine.error

Wit_C14 == LintFailed /\ call.engine.kind = "lintThrows" /\ Len(result.value) = 1

\* A dependency analysis in which madge rejected or one of the two lookups
\* could not be made.
DepsFailed ==
    /\ call.fn = "analyzeDependencies"
    /\ \/ call.madge.kind = "throws"
       \/ "depends" \notin MadgeMethods
       \/ "dependents" \notin MadgeMethods

\* C15: when graph construction or either lookup fails, analyzeDependencies
\* does not throw and returns empty dependencies and empty dependents, also
\* when only one of the two lookups failed.
Thm_C15 ==
    DepsFailed =>
        /\ ~result.threw
        /\ result.value.dependencies = <<>>
        /\ result.value.dependents = <<>>

\* The graph was built, the first lookup has an answer that is not empty, the
\* second lookup fails, and both results are empty.
Wit_C15 ==
    /\ DepsFailed
    /\ call.madge.kind = "graph"
    /\ "depends" \in MadgeMethods
    /\ MadgeDepends(call.madge.tree,
                    PathRelative(call.projectRoot, call.filePath)) # <<>>
    /\ result.value = NoDependencies

SeqRange(q) == {q[k] : k \in 1..Len(q)}

\* C16: for a target in a project graph, dependencies are exactly the modules
\* the target imports directly and dependents exactly the modules that import
\* it directly, each resolved against projectRoot.
Claim_C16 ==
    (call.fn = "analyzeDependencies" /\ call.madge.kind = "graph") =>
        LET target == PathRelative(call.projectRoot, call.filePath)
            tree == call.madge.tree
        IN  /\ ~result.threw
            /\ SeqRange(result.value.dependencies) =
                  {PathJoin(call.projectRoot, m) : m \in tree[target]}
            /\ SeqRange(result.value.dependents) =
                  {PathJoin(call.projectRoot, m) :
                      m \in {i \in Modules : target \in tree[i]}}

\* An estimate for well formed arguments.
CoverageEstimated ==
    /\ call.fn = "estimateTestCoverage"
    /\ call.filePath.isString
    /\ call.changes.isArray

\* No searched location holds a test file / some searched location does.
NoTestFile ==
    SeqRange(SearchedTestPaths(call.filePath.text)) \cap call.onDisk = {}
SomeTestFile ==
    SeqRange(SearchedTestPaths(call.filePath.text)) \cap call.onDisk # {}

\* The positions of the added records among the change records.
AddedAt(items) == {k \in 1..Len(items) : items[k].added}

\* untested holds one range per added record of items, in the order of items,
\* from newLineNumber to newLineNumber + lineCount - 1.
OneRangePerAdded(untested, items) ==
    /\ Len(untested) = Cardinality(AddedAt(items))
    /\ \A k \in AddedAt(items) :
          LET j == Cardinality({i \in AddedAt(items) : i <= k})
          IN  /\ untested[j].start = items[k].newLineNumber
              /\ untested[j].end = items[k].newLineNumber + items[k].lineCount - 1

Thm_C18 ==
    (CoverageEstimated /\ SomeTestFile) =>
        /\ ~result.threw
        /\ result.value.coverage = PresumedCoverageTenths
        /\ Len(result.value.untested) =
              Cardinality(AddedAt(call.changes.items))

\* More than one test file found and two added records.
Wit_C18 ==
    /\ CoverageEstimated /\ SomeTestFile
    /\ Len(result.value.testFiles) > 1
    /\ Cardinality(AddedAt(call.changes.items)) = 2
    /\ Len(result.value.untested) = 2

\* C19: for a fixed file with no test file, adding an added change record to
\* the changes never lowers the number of untested ranges.
Thm_C19 ==
    (CoverageEstimated /\ NoTestFile /\ call.priorUntested >= 0) =>
        Len(result.value.untested) >= call.priorUntested

Wit_C19 ==
    /\ CoverageEstimated /\ NoTestFile
    /\ call.priorUntested = 1
    /\ Len(result.value.untested) = 2

\* A call whose arguments make the estimation throw inside its try block.
CoverageFailed ==
    /\ call.fn = "estimateTestCoverage"
    /\ ~(call.filePath.isString /\ call.changes.isArray)

TestExtensions == {<<"js">>, <<"py">>}

\* The names B.test.X, B.spec.X, test-B.X and B-test.X for base name B.
NamedAsTest(B, X) ==
    {B \o <<".", "test", ".">> \o X, B \o <<".", "spec", ".">> \o X,
     <<"test", "-">> \o B \o <<".">> \o X, B \o <<"-", "test", ".">> \o X}

\* The source file's own directory and the test directories under the root.
SearchedDirs(filePath) ==
    {Dirname(filePath)} \cup {PathJoin(Cwd, testDirs[k]) : k \in 1..Len(testDirs)}

\* C21: a file named B.test.X, B.spec.X, test-B.X or B-test.X, for any
\* extension X, in the source file's directory or in a test directory under
\* the project root is detected as a test file, so coverage is not 0.
Claim_C21 ==
    (/\ CoverageEstimated
     /\ \E d \in SearchedDirs(call.filePath.text), X \in TestExtensions :
           \E n \in NamedAsTest(BasenameNoExt(call.filePath.text), X) :
              PathJoin(d, n) \in call.onDisk) =>
        ~result.threw /\ result.value.coverage # 0

\* C25: when test files exist, the length of testFiles and the count the
\* suggestion names equal the number of distinct test files on disk in the
\* searched locations; no file is counted twice.
Claim_C25 ==
    (CoverageEstimated /\ SomeTestFile) =>
        LET distinct == Cardinality(
                SeqRange(SearchedTestPaths(call.filePath.text)) \cap call.onDisk)
            suggestion == result.value.suggestion
        IN  /\ Len(result.value.testFiles) = distinct
            /\ SubSeq(suggestion, 1, Len(suggestion) - 1) = Digits(distinct)

\* A call of suggestEdgeCases.
EdgeCasesAsked == call.fn = "suggestEdgeCases"

\* C22: for the text "function f(){return 1;}\n" suggestEdgeCases returns an
\* empty list.
Claim_C22 ==
    (EdgeCasesAsked /\ call.code = "function f(){return 1;}\n") =>
        result.value = <<>>

\* The text has a try statement with a catch clause.
HasTryCatchBlock == \E k \in 1..Len(call.pieces) : call.pieces[k].tryBlock

\* C23: a text with an asynchronous idiom gets the async error-path
\* suggestion, and the add-error-handling suggestion exactly when it has no
\* try/catch block; a text with no such idiom gets neither.
Claim_C23 ==
    EdgeCasesAsked =>
        LET given == SeqRange(result.value)
        IN  /\ AsyncSuggestion \in given <=> UsesAsync(call.code)
            /\ TryCatchSuggestion \in given <=>
                  (UsesAsync(call.code) /\ ~HasTryCatchBlock)

\* Every suggestion the function can make, in the order of its five checks.
AllEdgeCases ==
    ArraySuggestions \o StringSuggestions \o NullSuggestions
    \o NumberSuggestions \o <<AsyncSuggestion, TryCatchSuggestion>>

\* C24: suggestEdgeCases returns for every text, without failing, a list in
\* the order collection, string, null/undefined, arithmetic, async, with no
\* duplicate and at most 9 entries, each rule giving its suggestions when
\* its own pattern is met and whatever the other rules do.
Thm_C24 ==
    EdgeCasesAsked =>
        LET given == SeqRange(result.value)
            Gives(suggestions, met) ==
                \A k \in 1..Len(suggestions) : suggestions[k] \in given <=> met
        IN  /\ ~result.threw
            /\ result.value = SelectSeq(AllEdgeCases, LAMBDA e : e \in given)
            /\ Len(result.value) <= 9
            /\ Gives(ArraySuggestions, UsesArrays(call.code))
            /\ Gives(StringSuggestions, UsesStrings(call.code))
            /\ Gives(NullSuggestions, ~ChecksNull(call.code))
            /\ Gives(NumberSuggestions, UsesArithmetic(call.code))
            /\ Gives(<<AsyncSuggestion>>, UsesAsync(call.code))

\* A text that meets every rule: all nine suggestions.
Wit_C24 == EdgeCasesAsked /\ Len(result.value) = 9

\* A call of runStaticAnalysis in which the lint engine answered.
LintSucceeded == call.fn = "runStaticAnalysis" /\ call.engine.kind = "results"

\* The messages of the file's result (none when the engine has no result).
EngineMessages ==
    IF call.engine.results = <<>> THEN <<>>
    ELSE call.engine.results[1].messages

\* C26: when the lint engine succeeds, runStaticAnalysis returns one issue
\* per engine message, in the engine's order, each with that message's text,
\* severity, line, column and ruleId; no message gives the empty sequence.
Thm_C26 ==
    LintSucceeded =>
        /\ ~result.threw
        /\ Len(result.value) = Len(EngineMessages)
        /\ \A k \in 1..Len(EngineMessages) :
              /\ result.value[k].message = EngineMessages[k].message
              /\ result.value[k].severity = EngineMessages[k].severity
              /\ result.value[k].line = EngineMessages[k].line
              /\ result.value[k].column = EngineMessages[k].column
              /\ result.value[k].ruleId = EngineMessages[k].ruleId

\* Two messages on different lines, the later line first.
Wit_C26 ==
    /\ LintSucceeded
    /\ Len(EngineMessages) = 2
    /\ EngineMessages[1].line > EngineMessages[2].line
    /\ Len(result.value) = 2

\* ===================================================== cli.js: checkApiKeys
\* String.prototype.startsWith
StartsWith(str, prefix) ==
    Len(str) >= Len(prefix) /\ SubSeq(str, 1, Len(prefix)) = prefix

\* The values an API key variable of the environment may have ("" when it is
\* not set).
KeyValues ==
    {"", "placeholder", "your_openai_api_key_here",
     "your_anthropic_api_key_here", "key-1", "sk-proj-1", "sk-ant-1"}

Providers == {"openai", "anthropic"}

\* cli.js 94-97
hasValidOpenAI(env) ==
    /\ env.OPENAI_API_KEY # ""
    /\ env.OPENAI_API_KEY # "placeholder"
    /\ env.OPENAI_API_KEY # "your_openai_api_key_here"
    /\ StartsWith(env.OPENAI_API_KEY, "sk-")

\* cli.js 106-109
hasValidAnthropic(env) ==
    /\ env.ANTHROPIC_API_KEY # ""
    /\ env.ANTHROPIC_API_KEY # "placeholder"
    /\ env.ANTHROPIC_API_KEY # "your_anthropic_api_key_here"
    /\ StartsWith(env.ANTHROPIC_API_KEY, "sk-ant-")

\* cli.js 111-118: the errors checkApiKeys collects; llmProvider is
\* config.llmProvider at the time of the call.
KeyErrors(llmProvider, env) ==
    (IF llmProvider = "openai" /\ ~hasValidOpenAI(env)
     THEN <<"OPENAI_API_KEY is not properly set in .env file">> ELSE <<>>)
    \o (IF llmProvider = "anthropic" /\ ~hasValidAnthropic(env)
        THEN <<"ANTHROPIC_API_KEY is not properly set in .env file">>
        ELSE <<>>)

\* `review <file> --llm <provider>` starts: config.llmProvider is the stored
\* provider, options.llm the one of the command line (the stored one when
\* --llm is not given), and the environment holds the two keys.
InitApiKeys ==
    /\ pc = "keys"
    /\ extensionsToInclude = DefaultExtensions
    /\ absolutePath = TargetFile
    /\ gitStatus = "none"
    /\ changedFiles = <<>>
    /\ scanned = FALSE
    /\ candidates = <<>>
    /\ stats = <<>>
    /\ filesToReview = <<>>
    /\ idx = 0
    /\ reviews = <<>>
    /\ attempted = <<>>
    /\ skipped = {}
    /\ report = <<>>
    /\ exitCode = -1
    /\ message = ""
    /\ oldCode = "none"
    /\ call \in {[fn |-> "review", llmProvider |-> stored, llm |-> llm,
                  env |-> env] :
                    stored \in Providers, llm \in Providers,
                    env \in [OPENAI_API_KEY : KeyValues,
                             ANTHROPIC_API_KEY : KeyValues]}
    /\ result = NoCall

\* cli.js 132-158: checkApiKeys found an error; process.exit(1).
ApiKeysRejected ==
    /\ pc = "keys"
    /\ KeyErrors(call.llmProvider, call.env) # <<>>
    /\ pc' = "exited"
    /\ exitCode' = 1
    /\ message' = "Error: Missing or Invalid API Keys"
    /\ UNCHANGED <<analyzerVars, oldCode, reviewData, report>>

\* cli.js 314-318: checkApiKeys returns; then config.llmProvider = options.llm.
ApiKeysAccepted ==
    /\ pc = "keys"
    /\ KeyErrors(call.llmProvider, call.env) = <<>>
    /\ call' = [call EXCEPT !.llmProvider = call.llm]
    /\ pc' = "prepare"
    /\ UNCHANGED <<result, oldCode, message, reviewData, report, exitCode>>

\* cli.js 320-354: the paths exist; new CodeReviewAgent(config.indexName,
\* config.llmProvider).
NewAgent ==
    /\ pc = "prepare"
    /\ result' = [fn |-> "CodeReviewAgent", llmProvider |-> call.llmProvider]
    /\ pc' = "agent"
    /\ UNCHANGED <<call, oldCode, message, reviewData, report, exitCode>>

NextApiKeys ==
    \/ ApiKeysRejected
    \/ ApiKeysAccepted
    \/ NewAgent

SpecApiKeys == InitApiKeys /\ [][NextApiKeys]_vars

\* ------------------------------------------------------------ claims C27-C29
\* The cap ran on candidates of the recursive scan made because git failed,
\* and fs.statSync gave every candidate the same modification time.
TiedScan ==
    /\ pc = "check"
    /\ gitStatus = "fail"
    /\ Len(candidates) > MAX_FILES
    /\ \A j, k \in 1..Len(stats) : stats[j].mtime = stats[k].mtime

\* C27: with no repository and more than 10 eligible files of one and the
\* same modification time, Selected is the first 10 candidates in discovery
\* order.
Thm_C27 ==
    TiedScan =>
        /\ Len(filesToReview) = MAX_FILES
        /\ \A k \in 1..MAX_FILES : filesToReview[k] = candidates[k]

Wit_C27 ==
    /\ TiedScan
    /\ Len(stats) = Len(candidates)
    /\ Len(filesToReview) = MAX_FILES
    /\ filesToReview[MAX_FILES] = candidates[MAX_FILES]

\* The last iteration of the batch loop could not get the old version.
ShowFailed == idx >= 2 /\ oldCode \in {"placeholder", "unavailable"}

\* C28: in batch review a failure of git show for a file is recovered in
\* place: the old text is the new-file placeholder, the file is reviewed
\* unless reviewCode itself rejects, and the loop goes on.
Thm_C28 ==
    (pc = "loop" /\ ShowFailed) =>
        /\ oldCode = "placeholder"
        /\ Len(attempted) = idx - 1
        /\ attempted[idx - 1] = filesToReview[idx - 1]
        /\ message \in {"Reviewed", "Failed to review: reviewCode"}
        /\ message = "Reviewed" =>
              /\ (idx - 1) \notin skipped
              /\ reviews # <<>>
              /\ reviews[Len(reviews)].filePath = filesToReview[idx - 1]

\* git show failed for the first file, which was reviewed, and the loop is at
\* the second file.
Wit_C28 ==
    /\ pc = "loop" /\ ShowFailed
    /\ gitStatus = "ok"
    /\ idx = 2 /\ idx <= Len(filesToReview)
    /\ Len(reviews) = 1 /\ skipped = {}

\* The key of provider p in the environment is present, no placeholder and
\* has the provider's prefix.
KeyUsable(p, env) ==
    IF p = "openai" THEN hasValidOpenAI(env) ELSE hasValidAnthropic(env)

\* C29: the review agent is initialized for provider P only if P's API key
\* is present, not a placeholder and correctly prefixed, also when P comes
\* from --llm and differs from the stored configuration.
Claim_C29 ==
    result.fn = "CodeReviewAgent" => KeyUsable(result.llmProvider, call.env)

====
